---- MODULE Spec2Model ----
(***************************************************************************)
(* check_rabbitmq_queues: one run of the probe (run -> get_queues ->       *)
(* check_lengths -> check_queue -> exit), modelled from                    *)
(* src/check_rabbitmq_queues/check.py.                                     *)
(*                                                                         *)
(* Representation of the Python values:                                    *)
(*   str            a sequence of one-character strings (so startswith and *)
(*                  len are computed, not assumed)                         *)
(*   None / a value <<>> / <<v>>                                           *)
(*   dict           a function on the set of its keys; the ordered mapping *)
(*                  queue_prefix_conf is a sequence of (prefix, config)    *)
(*   a policy dict  the set of its items                                   *)
(*   a reason       a record: the queue length (an int) or a text          *)
(***************************************************************************)
EXTENDS Integers, Sequences, FiniteSets, TLC

VARIABLES pc, queue_conf, queue_prefix_conf, broker, calls, queues, prefixes,
          i, configs, errors, warnings, stats, exc, result, output, exit_code

vars == <<pc, queue_conf, queue_prefix_conf, broker, calls, queues, prefixes,
          i, configs, errors, warnings, stats, exc, result, output, exit_code>>

(***************************************************************************)
(* Bounds of the explored inputs.                                          *)
(***************************************************************************)
\* longest queue name / prefix of the evaluation inputs
MaxNameLen == 1
\* longest queue name / prefix of the rule-matching inputs
MatchNameLen == 2
\* most records in one broker reply
MaxQueues == 2
\* most keys of the exact-name mapping
MaxExact == 1
\* most keys of the prefix mapping (evaluation inputs)
MaxPrefixes == 1
\* most keys of the prefix mapping (rule-matching inputs)
MatchPrefixes == 2
\* largest threshold of a rule
MaxThreshold == 1
\* queue lengths range over 0 .. MaxThreshold + DepthAbove
DepthAbove == 1

\* the characters of the names: evaluation inputs, rule-matching inputs
Chars == {"a", "b", "c"}
MatchChars == {"a", "b"}

(***************************************************************************)
(* Python values.                                                          *)
(***************************************************************************)
None == <<>>
Some(v) == <<v>>

EmptyDict == [k \in {} |-> 0]

\* a bug of Put: an existing key keeps its value
PutFirstWins(d, k, v) ==
    IF k \in DOMAIN d THEN d
    ELSE [n \in DOMAIN d \cup {k} |-> IF n = k THEN v ELSE d[n]]

\* d[k] = v
Put(d, k, v) == [n \in DOMAIN d \cup {k} |-> IF n = k THEN v ELSE d[n]]

\* the reasons check_queue appends: a length, or a text
LengthReason(n) == [kind |-> "length", length |-> n, text |-> ""]
TextReason(s) == [kind |-> "text", length |-> 0, text |-> s]

WrongQueuePolicy == TextReason("Wrong queue policy")
QueueNotFound == TextReason("Queue not found")

\* the key 'all' of the errors of a failed fetch
AllKey == <<"a", "l", "l">>

\* name.startswith(p)
StartsWith(name, p) == /\ Len(p) <= Len(name)
                       /\ SubSeq(name, 1, Len(p)) = p

\* truth value of a policy (None or a dict): None and {} are false
PolicyTruthy(p) == p # None /\ p[1] # {}

\* truth value of the prefix next() returned (None or a str): None and ''
\* are false
PrefixTruthy(p) == p # None /\ Len(p[1]) > 0

(***************************************************************************)
(* The exceptions.                                                         *)
(***************************************************************************)
NoException == [type |-> "None", errors |-> EmptyDict, stats |-> EmptyDict]

\* RabbitException.__init__(errors, stats={})
RabbitException(type, errs, sts) == [type |-> type, errors |-> errs, stats |-> sts]

\* a bug of ErrorCode: the two codes exchanged
ErrorCodeSwapped(type) == IF type = "RabbitCritical" THEN 1 ELSE 2

\* RabbitWarning.error_code, RabbitCritical.error_code
ErrorCode(type) == IF type = "RabbitCritical" THEN 2 ELSE 1

\* RabbitWarning.prefix, RabbitCritical.prefix: the status word printed
Prefix(type) == IF type = "RabbitCritical" THEN "CRITICAL" ELSE "WARNING"

(***************************************************************************)
(* check_queue(queue, config): (length, warnings, errors).                 *)
(***************************************************************************)
\* a bug of check_queue: a length equal to the warning threshold warns
CheckQueueWarnsAtThreshold(queue, config) ==
    LET length == queue.messages_ready
        depthErrors == IF config # None /\ length > config[1].critical
                       THEN <<[kind |-> "length", length |-> length, text |-> ""]>>
                       ELSE <<>>
        depthWarnings == IF /\ config # None
                            /\ ~(length > config[1].critical)
                            /\ length >= config[1].warning
                         THEN <<[kind |-> "length", length |-> length, text |-> ""]>>
                         ELSE <<>>
        policy == IF config # None THEN config[1].policy ELSE <<>>
        policyErrors == IF /\ config # None
                           /\ policy # <<>> /\ policy[1] # {}
                           /\ policy # queue.effective_policy_definition
                        THEN <<[kind |-> "text", length |-> 0,
                                text |-> "Wrong queue policy"]>>
                        ELSE <<>>
    IN  [length |-> length,
         warnings |-> depthWarnings,
         errors |-> depthErrors \o policyErrors]

CheckQueue(queue, config) ==
    LET length == queue.messages_ready
        depthErrors == IF config # None /\ length > config[1].critical
                       THEN <<LengthReason(length)>> ELSE <<>>
        depthWarnings == IF /\ config # None
                            /\ ~(length > config[1].critical)
                            /\ length > config[1].warning
                         THEN <<LengthReason(length)>> ELSE <<>>
        policy == IF config # None THEN config[1].policy ELSE None
        queue_policy == queue.effective_policy_definition
        policyErrors == IF /\ config # None
                           /\ PolicyTruthy(policy)
                           /\ policy # queue_policy
                        THEN <<WrongQueuePolicy>> ELSE <<>>
    IN  [length |-> length,
         warnings |-> depthWarnings,
         errors |-> depthErrors \o policyErrors]

(***************************************************************************)
(* check_lengths: the resolution of a record's rule.                       *)
(***************************************************************************)
\* queue_prefix_conf.keys(), in the mapping's order
Keys(qpc) == [k \in 1..Len(qpc) |-> qpc[k].prefix]

\* queue_prefix_conf[prefix]
PrefixConfig(qpc, p) ==
    qpc[CHOOSE k \in 1..Len(qpc) : qpc[k].prefix = p].config

\* one step of the stable sort by descending length
InsertByLen(s, p) ==
    SelectSeq(s, LAMBDA x : Len(x) >= Len(p)) \o <<p>>
        \o SelectSeq(s, LAMBDA x : Len(x) < Len(p))

RECURSIVE SortedByLen(_)
\* sorted(keys, key=len, reverse=True)
SortedByLen(keys) ==
    IF keys = <<>> THEN <<>>
    ELSE InsertByLen(SortedByLen(SubSeq(keys, 1, Len(keys) - 1)), keys[Len(keys)])

\* next((p for p in prefixes if name.startswith(p)), None)
FirstMatch(ps, name) ==
    LET hits == {k \in 1..Len(ps) : StartsWith(name, ps[k])}
    IN  IF hits = {} THEN None
        ELSE Some(ps[CHOOSE k \in hits : \A j \in hits : k <= j])

\* lines 131-138: the config check_lengths passes to check_queue
ResolveConfig(name, qc, qpc, ps) ==
    IF name \in DOMAIN qc THEN Some(qc[name])
    ELSE LET prefix == FirstMatch(ps, name)
         IN  IF PrefixTruthy(prefix) THEN Some(PrefixConfig(qpc, prefix[1]))
             ELSE None

\* a bug of Missing: the configured prefixes are looked for as well
MissingWithPrefixes(sts, qc) ==
    {q \in DOMAIN qc \cup {queue_prefix_conf[k].prefix :
                               k \in 1..Len(queue_prefix_conf)} :
        q \notin DOMAIN sts}

\* line 147: the configured queue names with no entry in stats
Missing(sts, qc) == {q \in DOMAIN qc : q \notin DOMAIN sts}

\* a bug of Raised: the warnings are looked at before the errors
RaisedWarningFirst(errs, warns, sts) ==
    IF DOMAIN warns # {} THEN RabbitException("RabbitWarning", warns, sts)
    ELSE IF DOMAIN errs # {} THEN RabbitException("RabbitCritical", errs, sts)
    ELSE NoException

\* lines 151-154: what check_lengths raises, if anything
Raised(errs, warns, sts) ==
    IF DOMAIN errs # {} THEN RabbitException("RabbitCritical", errs, sts)
    ELSE IF DOMAIN warns # {} THEN RabbitException("RabbitWarning", warns, sts)
    ELSE NoException

(***************************************************************************)
(* get_queues: the message of a failed fetch.                              *)
(***************************************************************************)
\* a bug of get_queues: the messages of 404 and 401 exchanged
FailureWarningSwapped(failure) ==
    IF failure.kind = "NetworkError" THEN "Can not communicate with RabbitMQ."
    ELSE IF failure.status = 404 THEN "Unauthorized."
    ELSE IF failure.status = 401 THEN "Queue not found."
    ELSE "Unhandled HTTP error, status: " \o ToString(failure.status)

\* lines 180-187: the message get_queues chooses
FailureWarning(failure) ==
    IF failure.kind = "NetworkError" THEN "Can not communicate with RabbitMQ."
    ELSE IF failure.status = 404 THEN "Queue not found."
    ELSE IF failure.status = 401 THEN "Unauthorized."
    ELSE "Unhandled HTTP error, status: " \o ToString(failure.status)

(***************************************************************************)
(* The inputs: the configuration and what the broker answers.              *)
(***************************************************************************)
\* the strings of length lo..hi
Strings(C, lo, hi) == UNION {[1..n -> C] : n \in lo..hi}

\* the sequences over S of length at most n
SeqsUpTo(S, n) == UNION {[1..m -> S] : m \in 0..n}

Thresholds == 0..MaxThreshold
Depths == 0..(MaxThreshold + DepthAbove)

\* a configured policy: absent, the empty definition, a definition
RulePolicies == {None, Some({}), Some({1})}
\* what the broker reports: no effective policy, a definition
QueuePolicies == {None, Some({1})}

Rules == [warning : Thresholds, critical : Thresholds, policy : RulePolicies]
\* rules without a policy and with equal thresholds
PlainRules == {r \in Rules : r.policy = None /\ r.warning = r.critical}

\* the records over the names N: with a name, or without the key 'name'
Records(N) ==
    [name : {Some(n) : n \in N}, messages_ready : Depths,
     effective_policy_definition : QueuePolicies]
    \cup {[name |-> None, messages_ready |-> 0,
           effective_policy_definition |-> None]}

\* the dicts with at most n keys out of K and values out of V
Dicts(K, V, n) ==
    UNION {[S -> V] : S \in {T \in SUBSET K : Cardinality(T) <= n}}

\* the ordered mappings with at most n distinct keys out of K
OrderedDicts(K, V, n) ==
    {s \in SeqsUpTo([prefix : K, config : V], n) :
        \A j, k \in 1..Len(s) : j # k => s[j].prefix # s[k].prefix}

HttpStatuses == {400, 401, 403, 404, 500}

Failures == {[kind |-> "NetworkError", status |-> 0]}
            \cup [kind : {"HTTPError"}, status : HttpStatuses]

\* what client.get_queues(vhost) does: returns a list, or raises
Replies(N, n) ==
    [ok : {TRUE}, list : SeqsUpTo(Records(N), n), failure : {None}]
    \cup [ok : {FALSE}, list : {<<>>}, failure : {Some(f) : f \in Failures}]

InitLocals ==
    /\ pc = "start"
    /\ calls = 0
    /\ queues = <<>>
    /\ prefixes = <<>>
    /\ i = 0
    /\ configs = <<>>
    /\ errors = EmptyDict
    /\ warnings = EmptyDict
    /\ stats = EmptyDict
    /\ exc = NoException
    /\ result = None
    /\ output = None
    /\ exit_code = -1

\* evaluation inputs: every rule, short names
Init ==
    /\ queue_conf \in Dicts(Strings(Chars, 1, MaxNameLen), Rules, MaxExact)
    /\ queue_prefix_conf \in OrderedDicts(Strings(Chars, 0, MaxNameLen), Rules, MaxPrefixes)
    /\ broker \in Replies(Strings(Chars, 1, MaxNameLen), MaxQueues)
    /\ InitLocals

\* rule-matching inputs: longer names and more prefixes, plain rules
InitMatch ==
    /\ queue_conf \in Dicts(Strings(MatchChars, 1, MatchNameLen), PlainRules, MaxExact)
    /\ queue_prefix_conf \in
           OrderedDicts(Strings(MatchChars, 0, MatchNameLen), PlainRules, MatchPrefixes)
    /\ broker \in Replies(Strings(MatchChars, 1, MatchNameLen), 1)
    /\ InitLocals

(***************************************************************************)
(* run: the steps of one run.                                              *)
(***************************************************************************)
\* get_queues returns the list; check_lengths starts (lines 121-124)
GetQueuesOk ==
    /\ pc = "start"
    /\ broker.ok
    /\ calls' = calls + 1
    /\ queues' = broker.list
    /\ prefixes' = SortedByLen(Keys(queue_prefix_conf))
    /\ errors' = EmptyDict
    /\ warnings' = EmptyDict
    /\ stats' = EmptyDict
    /\ i' = 1
    /\ pc' = "check_lengths"
    /\ UNCHANGED <<queue_conf, queue_prefix_conf, broker, configs, exc, result,
                   output, exit_code>>

\* get_queues: the call raises, RabbitCritical({'all': [warning]}) is raised
GetQueuesFail ==
    /\ pc = "start"
    /\ ~broker.ok
    /\ calls' = calls + 1
    /\ exc' = RabbitException("RabbitCritical",
                  Put(EmptyDict, AllKey,
                      <<TextReason(FailureWarning(broker.failure[1]))>>),
                  EmptyDict)
    /\ pc' = "raised"
    /\ UNCHANGED <<queue_conf, queue_prefix_conf, broker, queues, prefixes, i,
                   configs, errors, warnings, stats, result, output,
                   exit_code>>

\* one iteration of the loop of check_lengths (lines 125-145)
CheckRecord ==
    /\ pc = "check_lengths"
    /\ i <= Len(queues)
    /\ LET queue == queues[i]
       IN  IF queue.name = None
           THEN \* KeyError: pass
                /\ configs' = Append(configs, None)
                /\ UNCHANGED <<errors, warnings, stats>>
           ELSE LET name == queue.name[1]
                    config == ResolveConfig(name, queue_conf, queue_prefix_conf,
                                            prefixes)
                    r == CheckQueue(queue, config)
                IN  /\ configs' = Append(configs, config)
                    /\ errors' = IF r.errors # <<>>
                                 THEN Put(errors, name, r.errors) ELSE errors
                    /\ warnings' = IF r.errors = <<>> /\ r.warnings # <<>>
                                   THEN Put(warnings, name, r.warnings)
                                   ELSE warnings
                    /\ stats' = Put(stats, name, r.length)
    /\ i' = i + 1
    /\ UNCHANGED <<pc, queue_conf, queue_prefix_conf, broker, calls, queues,
                   prefixes, exc, result, output, exit_code>>

\* the end of check_lengths (lines 147-156)
CheckLengthsEnd ==
    /\ pc = "check_lengths"
    /\ i > Len(queues)
    /\ LET missing == Missing(stats, queue_conf)
           errs == [n \in DOMAIN errors \cup missing |->
                       IF n \in missing THEN <<QueueNotFound>> ELSE errors[n]]
       IN  /\ errors' = errs
           /\ exc' = Raised(errs, warnings, stats)
           /\ IF exc'.type # "None"
              THEN pc' = "raised" /\ UNCHANGED result
              ELSE pc' = "returned" /\ result' = Some(stats)
    /\ UNCHANGED <<queue_conf, queue_prefix_conf, broker, calls, queues,
                   prefixes, i, configs, warnings, stats, output, exit_code>>

\* run: except RabbitException: print the status, sys.exit(e.error_code)
ExitOnException ==
    /\ pc = "raised"
    /\ output' = Some(Prefix(exc.type))
    /\ exit_code' = ErrorCode(exc.type)
    /\ pc' = "exit"
    /\ UNCHANGED <<queue_conf, queue_prefix_conf, broker, calls, queues,
                   prefixes, i, configs, errors, warnings, stats, exc, result>>

\* run: else: print 'OK - all lengths fine.', sys.exit(0)
ExitOk ==
    /\ pc = "returned"
    /\ output' = Some("OK")
    /\ exit_code' = 0
    /\ pc' = "exit"
    /\ UNCHANGED <<queue_conf, queue_prefix_conf, broker, calls, queues,
                   prefixes, i, configs, errors, warnings, stats, exc, result>>

Next == \/ GetQueuesOk
        \/ GetQueuesFail
        \/ CheckRecord
        \/ CheckLengthsEnd
        \/ ExitOnException
        \/ ExitOk

Spec == Init /\ [][Next]_vars

SpecMatch == InitMatch /\ [][Next]_vars

(***************************************************************************)
(* The properties.                                                         *)
(***************************************************************************)
\* the fetch failed and get_queues has raised
FetchFailed == ~broker.ok /\ pc # "start"

\* check_lengths has processed the whole list and has raised or returned
Finished == broker.ok /\ pc \in {"raised", "returned", "exit"}

\* the positions of the fetched records that carry a name / the name n
Named == {k \in 1..Len(queues) : queues[k].name # None}
Carrying(n) == {k \in Named : queues[k].name[1] = n}
FetchedNames == {queues[k].name[1] : k \in Named}

\* the length of the last fetched record named n
LastLength(n) ==
    queues[CHOOSE k \in Carrying(n) : \A j \in Carrying(n) : j <= k].messages_ready

\* the stats map the outcome carries: returned on ok, raised otherwise
CarriedStats == IF exc.type = "None" THEN result[1] ELSE exc.stats

\* the configured prefixes
ConfiguredPrefixes == {queue_prefix_conf[k].prefix : k \in 1..Len(queue_prefix_conf)}

\* the record just processed by the loop of check_lengths
JustProcessed == pc = "check_lengths" /\ i > 1 /\ (i - 1) \in Named

\* the rule the matching policy of the specification selects for a name
SelectedRule(name) ==
    IF name \in DOMAIN queue_conf THEN Some(queue_conf[name])
    ELSE LET m == {k \in 1..Len(queue_prefix_conf) :
                      StartsWith(name, queue_prefix_conf[k].prefix)}
         IN  IF m = {} THEN None
             ELSE Some(queue_prefix_conf[
                      CHOOSE k \in m : \A j \in m :
                          Len(queue_prefix_conf[k].prefix)
                              >= Len(queue_prefix_conf[j].prefix)].config)

\* C1: every named record is checked against the exact-name rule if its name
\* is an exact-name key, else against the rule of the longest configured
\* prefix of its name, else against no rule, and then it gives no warning
\* and no critical reason.
C1_RuleResolution ==
    \A k \in Named :
        k <= Len(configs) =>
            /\ configs[k] = SelectedRule(queues[k].name[1])
            /\ SelectedRule(queues[k].name[1]) = None =>
                   /\ CheckQueue(queues[k], configs[k]).warnings = <<>>
                   /\ CheckQueue(queues[k], configs[k]).errors = <<>>

\* C2: after check_lengths, every exact-name key that no fetched record
\* carries is in the critical bucket with ['Queue not found'] and has no
\* stats entry, and the outcome is critical; a configured prefix that matches
\* no fetched record has no such entry (unless it is an exact-name key too).
C2_MissingQueuesCritical ==
    Finished =>
        /\ \A q \in DOMAIN queue_conf \ FetchedNames :
               /\ q \in DOMAIN errors
               /\ errors[q] = <<QueueNotFound>>
               /\ q \notin DOMAIN stats
               /\ exc = RabbitException("RabbitCritical", errors, stats)
               /\ pc = "exit" => exit_code = 2
        /\ \A p \in ConfiguredPrefixes :
               (\A n \in FetchedNames : ~StartsWith(n, p)) =>
                   (p \in DOMAIN errors => p \in DOMAIN queue_conf)

C2_Witness ==
    /\ Finished
    /\ pc = "exit"
    /\ DOMAIN queue_conf \ FetchedNames # {}
    /\ FetchedNames # {}
    /\ \E p \in ConfiguredPrefixes :
           /\ p \notin DOMAIN queue_conf
           /\ \A n \in FetchedNames : ~StartsWith(n, p)

\* C3: a record whose rule has a policy set that differs from the record's
\* effective policy gets the critical reason 'Wrong queue policy' and is in
\* the critical bucket, whatever its length.
C3_WrongPolicyIsCritical ==
    JustProcessed =>
        LET queue == queues[i - 1]
            config == configs[i - 1]
        IN  (/\ config # None
             /\ config[1].policy # None
             /\ config[1].policy # queue.effective_policy_definition) =>
                /\ queue.name[1] \in DOMAIN errors
                /\ errors[queue.name[1]][Len(errors[queue.name[1]])]
                       = WrongQueuePolicy

\* C4: critical if the critical bucket is non-empty, else warning if the
\* warning bucket is non-empty, else ok; the exception carries exactly the
\* bucket and the full stats, ok returns the stats; exit codes 2, 1, 0, and
\* 0 only in the ok case.
C4_Outcome ==
    /\ Finished =>
           IF DOMAIN errors # {}
           THEN /\ exc = RabbitException("RabbitCritical", errors, stats)
                /\ result = None
                /\ \A n \in DOMAIN warnings \ DOMAIN errors :
                       n \notin DOMAIN exc.errors
                /\ pc = "exit" => exit_code = 2 /\ output = Some("CRITICAL")
           ELSE IF DOMAIN warnings # {}
           THEN /\ exc = RabbitException("RabbitWarning", warnings, stats)
                /\ result = None
                /\ pc = "exit" => exit_code = 1 /\ output = Some("WARNING")
           ELSE /\ exc = NoException
                /\ result = Some(stats)
                /\ pc = "exit" => exit_code = 0 /\ output = Some("OK")
    /\ exit_code = 0 =>
           /\ Finished
           /\ DOMAIN errors = {}
           /\ DOMAIN warnings = {}

C4_Witness ==
    /\ Finished
    /\ pc = "exit"
    /\ exit_code = 2
    /\ DOMAIN warnings \ DOMAIN errors # {}
    /\ DOMAIN stats \ (DOMAIN warnings \cup DOMAIN errors) = {}

\* a record within its rule: the length above neither threshold, the policy
\* of the rule unset or equal to the effective policy
WithinWarning(k) ==
    /\ configs[k] # None
    /\ queues[k].messages_ready <= configs[k][1].warning
    /\ \/ configs[k][1].policy = None
       \/ configs[k][1].policy = queues[k].effective_policy_definition

\* C5 as stated: a record with a rule, a length at most the warning threshold
\* and the policy unset or equal is in neither bucket, and stats maps its
\* name to its length.
C5_AsStated ==
    Finished =>
        \A k \in Named :
            WithinWarning(k) =>
                /\ queues[k].name[1] \notin DOMAIN errors
                /\ queues[k].name[1] \notin DOMAIN warnings
                /\ queues[k].name[1] \in DOMAIN stats
                /\ stats[queues[k].name[1]] = queues[k].messages_ready

\* C5 amended: a name with a rule, all of whose fetched records have a length
\* at most the warning threshold and at most the critical threshold and the
\* policy unset or equal, is in neither bucket, and stats maps it to the
\* length of the last of these records.
C5_WithinRuleIsOk ==
    Finished =>
        \A n \in FetchedNames :
            (\A k \in Carrying(n) :
                /\ WithinWarning(k)
                /\ queues[k].messages_ready <= configs[k][1].critical) =>
                /\ n \notin DOMAIN errors
                /\ n \notin DOMAIN warnings
                /\ n \in DOMAIN stats
                /\ stats[n] = LastLength(n)

C5_Witness ==
    /\ Finished
    /\ pc = "exit"
    /\ \E n \in FetchedNames :
           /\ Cardinality(Carrying(n)) = 2
           /\ \A k \in Carrying(n) :
                  /\ WithinWarning(k)
                  /\ queues[k].messages_ready <= configs[k][1].critical
                  /\ configs[k][1].policy # None
           /\ queues[1].messages_ready # queues[2].messages_ready

\* the message the specification gives for a failed fetch
DocumentedMessage(failure) ==
    CASE failure.kind = "NetworkError" -> "Can not communicate with RabbitMQ."
      [] failure.kind = "HTTPError" /\ failure.status = 404 -> "Queue not found."
      [] failure.kind = "HTTPError" /\ failure.status = 401 -> "Unauthorized."
      [] failure.kind = "HTTPError" /\ failure.status = 400 ->
             "Unhandled HTTP error, status: 400"
      [] failure.kind = "HTTPError" /\ failure.status = 403 ->
             "Unhandled HTTP error, status: 403"
      [] failure.kind = "HTTPError" /\ failure.status = 500 ->
             "Unhandled HTTP error, status: 500"

C8_BucketsDisjoint ==
    Finished =>
        /\ DOMAIN errors \cap DOMAIN warnings = {}
        /\ \A n \in DOMAIN warnings :
               \A k \in Carrying(n) :
                   CheckQueue(queues[k], configs[k]).errors = <<>>

\* C9: a record that violates its rule by length (above the warning or the
\* critical threshold) and by policy has the reasons [length, 'Wrong queue
\* policy'] and is in the critical bucket only.
C9_BothReasons ==
    JustProcessed =>
        LET queue == queues[i - 1]
            config == configs[i - 1]
        IN  (/\ config # None
             /\ \/ queue.messages_ready > config[1].warning
                \/ queue.messages_ready > config[1].critical
             /\ config[1].policy # None
             /\ config[1].policy # queue.effective_policy_definition) =>
                /\ queue.name[1] \in DOMAIN errors
                /\ errors[queue.name[1]]
                       = <<LengthReason(queue.messages_ready), WrongQueuePolicy>>
                /\ queue.name[1] \notin DOMAIN warnings

\* C10 as stated: the stats carried by the outcome have an entry for every
\* configured queue name and every fetched name, and the entry of a fetched
\* name is the length of a record of that name.
C10_AsStated ==
    Finished =>
        \A q \in DOMAIN queue_conf \cup FetchedNames :
            /\ q \in DOMAIN CarriedStats
            /\ q \in FetchedNames =>
                   \E k \in Carrying(q) :
                       CarriedStats[q] = queues[k].messages_ready

\* C10 amended: the stats carried by the outcome have an entry for exactly
\* the names of the fetched records (a configured name that was not fetched
\* has none), and the entry is the length of the last record of that name.
C10_StatsOfFetched ==
    Finished =>
        /\ DOMAIN CarriedStats = FetchedNames
        /\ \A q \in FetchedNames : CarriedStats[q] = LastLength(q)

C10_Witness ==
    /\ Finished
    /\ pc = "exit"
    /\ DOMAIN queue_conf \ FetchedNames # {}
    /\ \E n \in FetchedNames :
           /\ Cardinality(Carrying(n)) = 2
           /\ queues[1].messages_ready # queues[2].messages_ready

====
